---- MODULE Spec2Model ----
(***************************************************************************)
(* Model of neffint/fixed_grid_fourier_integral.py.                        *)
(*                                                                         *)
(* Floating point numbers are fixed-point integers in units of 1/SCALE,    *)
(* every product and quotient truncated toward zero, so that rounding and  *)
(* underflow to zero exist as they do in float64.  A complex number is a   *)
(* record [re, im].  A flat array is a sequence; an n-d array additionally *)
(* carries its shape.                                                      *)
(***************************************************************************)
EXTENDS Integers, Sequences, FiniteSets, TLC

VARIABLES MAX_TAYLOR_ITERATIONS, entry, lam, pp, first, cp, fi

vars == <<MAX_TAYLOR_ITERATIONS, entry, lam, pp, first, cp, fi>>

(***************************************************************************)
(* Bounds of the model                                                     *)
(***************************************************************************)
MaxLen == 2

MaxTimes == 2

DirectTerms == 8

DefaultCap == 1000

Caps == {0, 3, DefaultCap}

(***************************************************************************)
(* float64 arithmetic                                                      *)
(***************************************************************************)
SCALE == 4096

rel_tolerance == SCALE \div 16

Abs(a) == IF a < 0 THEN -a ELSE a

Min(a, b) == IF a < b THEN a ELSE b

TDiv(a, b) == IF a >= 0 THEN a \div b ELSE -((-a) \div b)

FMul(a, b) == TDiv(a * b, SCALE)

FDiv(a, b) == TDiv(a * SCALE, b)

Complex(re, im) == [re |-> re, im |-> im]

CAdd(z, w) == Complex(z.re + w.re, z.im + w.im)

CSub(z, w) == Complex(z.re - w.re, z.im - w.im)

CNeg(z) == Complex(-z.re, -z.im)

CScale(z, r) == Complex(FMul(z.re, r), FMul(z.im, r))

CTimesInt(z, k) == Complex(z.re * k, z.im * k)

CDivReal(z, r) == Complex(FDiv(z.re, r), FDiv(z.im, r))

CMulJ(z) == Complex(-z.im, z.re)

One == Complex(SCALE, 0)

Zero == Complex(0, 0)

SeqMap(Op(_), s) == [i \in 1..Len(s) |-> Op(s[i])]

RECURSIVE ExpFrom(_, _, _)
ExpFrom(term, k, a) ==
    IF term = 0 THEN 0
    ELSE term + ExpFrom(TDiv(FMul(term, a), k), k + 1, a)

Exp(a) == ExpFrom(SCALE, 1, a)

RECURSIVE ExpJFrom(_, _, _)
ExpJFrom(term, k, x) ==
    IF term = Zero THEN Zero
    ELSE CAdd(term, ExpJFrom(CMulJ(Complex(TDiv(FMul(term.re, x), k),
                                           TDiv(FMul(term.im, x), k))),
                             k + 1, x))

ExpJ(x) == ExpJFrom(One, 1, x)

(***************************************************************************)
(* Boolean masks and the truth value of an array                           *)
(***************************************************************************)
TaylorMask(x) == [i \in 1..Len(x) |-> Abs(x[i]) < SCALE]

RECURSIVE Select(_, _)
Select(x, mask) ==
    IF Len(x) = 0 THEN <<>>
    ELSE IF mask[Len(x)]
         THEN Append(Select(SubSeq(x, 1, Len(x) - 1), mask), x[Len(x)])
         ELSE Select(SubSeq(x, 1, Len(x) - 1), mask)

Not(mask) == [i \in 1..Len(mask) |-> ~mask[i]]

\* position of element i of the array among the selected ones
Rank(mask, i) == Cardinality({k \in 1..i : mask[k]})

Scatter(full, mask, part) ==
    [i \in 1..Len(full) |-> IF mask[i] THEN part[Rank(mask, i)] ELSE full[i]]

np_all(b) == \A i \in 1..Len(b) : b[i]

\* `if <array>:` -- bool() of an array: one element gives its value, more
\* than one raises ValueError, none gives False (numpy < 2.2, deprecated)
\* or raises ValueError (numpy >= 2.2).
TruthValues(b) ==
    IF Len(b) = 1 THEN {IF b[1] THEN "True" ELSE "False"}
    ELSE IF Len(b) = 0 THEN {"False", "ValueError"}
    ELSE {"ValueError"}

MinComponent(z) == Min(Abs(z.re), Abs(z.im))

NoError == [type |-> "None"]

Zeros(n) == [i \in 1..n |-> Zero]

RuntimeError(msg) == [type |-> "RuntimeError", message |-> msg]

ValueError == [type |-> "ValueError"]

TypeError == [type |-> "TypeError"]

Idle == [pc |-> "idle"]

Done(f) == f.pc \in {"returned", "raised"}

(***************************************************************************)
(* _lambda                                                                 *)
(***************************************************************************)
LambdaClosedForm(xx) ==
    LET exp_jx == ExpJ(xx)
    IN  CAdd(CDivReal(CNeg(CMulJ(exp_jx)), xx),
             CDivReal(CSub(exp_jx, One), FMul(xx, xx)))

\* lines 41-60: the frame of a call up to the first loop iteration
LambdaCall(x) ==
    LET taylor_mask == TaylorMask(x)
        xx == Select(x, taylor_mask)
    IN  [pc |-> "loop",
         x |-> x,
         taylor_mask |-> taylor_mask,
         result |-> Scatter(Zeros(Len(x)), Not(taylor_mask),
                            SeqMap(LambdaClosedForm, Select(x, Not(taylor_mask)))),
         xx |-> xx,
         n |-> 0,
         iters |-> 0,
         inv_factorial |-> SCALE,
         jx_to_n |-> [i \in 1..Len(xx) |-> One],
         abs_x_to_n_plus_1 |-> SeqMap(Abs, xx),
         exp_abs_x |-> [i \in 1..Len(xx) |-> Exp(Abs(xx[i]))],
         min_component |-> <<>>,
         remaining_term_bound |-> <<>>,
         err |-> NoError]

LambdaTerm(f) ==
    [i \in 1..Len(f.xx) |->
        CScale(CScale(f.jx_to_n[i], TDiv(SCALE, f.n + 2)), f.inv_factorial)]

LambdaAdd(f) ==
    LET old == Select(f.result, f.taylor_mask)
        term == LambdaTerm(f)
    IN  [i \in 1..Len(f.xx) |-> CAdd(old[i], term[i])]

LambdaBound(f) ==
    [i \in 1..Len(f.xx) |->
        TDiv(FMul(FMul(f.abs_x_to_n_plus_1[i], f.exp_abs_x[i]), f.inv_factorial),
             (f.n + 3) * (f.n + 1))]

LambdaConverged(bound, min_component) ==
    [i \in 1..Len(bound) |-> bound[i] < FMul(rel_tolerance, min_component[i])]

\* line 63: the loop variable after an iteration that did not break
NextIndex(f, cap) ==
    IF f.n = cap THEN [f EXCEPT !.pc = "after_loop"]
    ELSE [f EXCEPT !.n = f.n + 1]

\* lines 63-77: one iteration of the convergence loop; tv is the truth value
\* python gives the array comparison of line 71
LambdaIteration(f, tv, cap) ==
    LET sum == LambdaAdd(f)
        min_component == SeqMap(MinComponent, sum)
        bound == LambdaBound(f)
        g == [f EXCEPT !.result = Scatter(f.result, f.taylor_mask, sum),
                       !.min_component = min_component,
                       !.remaining_term_bound = bound,
                       !.iters = f.iters + 1]
    IN  IF tv = "ValueError" THEN [g EXCEPT !.pc = "raised", !.err = ValueError]
        ELSE IF tv = "True" THEN [g EXCEPT !.pc = "after_loop"]
        ELSE NextIndex(
               [g EXCEPT !.jx_to_n = [i \in 1..Len(f.xx) |->
                                         CScale(CMulJ(f.jx_to_n[i]), f.xx[i])],
                         !.abs_x_to_n_plus_1 = [i \in 1..Len(f.xx) |->
                                         FMul(f.abs_x_to_n_plus_1[i], Abs(f.xx[i]))],
                         !.inv_factorial = TDiv(f.inv_factorial, f.n + 1)],
               cap)

\* f"{subject} calculation failed to converge after {iterations} iterations"
Message(subject, iterations) == [subject |-> subject, iterations |-> iterations]

LambdaMessage(cap) == Message(<<"Lambda">>, cap)

\* lines 80-84
LambdaAfterLoop(f, cap) ==
    IF f.n = cap
    THEN [f EXCEPT !.pc = "raised", !.err = RuntimeError(LambdaMessage(cap))]
    ELSE [f EXCEPT !.pc = "returned"]

(***************************************************************************)
(* _phi_and_psi                                                            *)
(***************************************************************************)
PhiClosedForm(xx) ==
    LET exp_jx == ExpJ(xx)
        x2 == FMul(xx, xx)
        x3 == FMul(x2, xx)
        x4 == FMul(x3, xx)
    IN  CDivReal(
          CAdd(CSub(CScale(CNeg(CMulJ(exp_jx)), x3),
                    CScale(CTimesInt(CMulJ(CAdd(exp_jx, One)), 6), xx)),
               CTimesInt(CSub(exp_jx, One), 12)),
          x4)

PsiClosedForm(xx) ==
    LET exp_jx == ExpJ(xx)
        x2 == FMul(xx, xx)
        x3 == FMul(x2, xx)
        x4 == FMul(x3, xx)
    IN  CDivReal(
          CSub(CAdd(CScale(exp_jx, x2),
                    CScale(CTimesInt(CMulJ(CAdd(CTimesInt(exp_jx, 2), One)), 2), xx)),
               CTimesInt(CSub(exp_jx, One), 6)),
          x4)

\* lines 137-162
PhiPsiCall(x) ==
    LET taylor_mask == TaylorMask(x)
        xx == Select(x, taylor_mask)
        closed == Select(x, Not(taylor_mask))
    IN  [pc |-> "loop",
         x |-> x,
         taylor_mask |-> taylor_mask,
         phi |-> Scatter(Zeros(Len(x)), Not(taylor_mask), SeqMap(PhiClosedForm, closed)),
         psi |-> Scatter(Zeros(Len(x)), Not(taylor_mask), SeqMap(PsiClosedForm, closed)),
         xx |-> xx,
         n |-> 0,
         iters |-> 0,
         phi_terms |-> 0,
         psi_terms |-> 0,
         inv_factorial |-> SCALE,
         jx_to_n |-> [i \in 1..Len(xx) |-> One],
         abs_x_to_n_plus_1 |-> SeqMap(Abs, xx),
         exp_abs_x |-> [i \in 1..Len(xx) |-> Exp(Abs(xx[i]))],
         phi_converged |-> FALSE,
         psi_converged |-> FALSE,
         min_phi_component |-> <<>>,
         phi_remaining_terms_bound |-> <<>>,
         min_psi_component |-> <<>>,
         psi_remaining_terms_bound |-> <<>>,
         err |-> NoError]

PhiTerm(f) ==
    [i \in 1..Len(f.xx) |->
        CScale(CScale(f.jx_to_n[i],
                      TDiv(SCALE * (f.n + 6), (f.n + 3) * (f.n + 4))),
               f.inv_factorial)]

PsiTerm(f) ==
    [i \in 1..Len(f.xx) |->
        CScale(CScale(f.jx_to_n[i], -TDiv(SCALE, (f.n + 3) * (f.n + 4))),
               f.inv_factorial)]

PhiBound(f) ==
    [i \in 1..Len(f.xx) |->
        TDiv(FMul(FMul(2 * f.abs_x_to_n_plus_1[i], f.exp_abs_x[i]), f.inv_factorial),
             (f.n + 1) * (f.n + 5))]

PsiBound(f) ==
    [i \in 1..Len(f.xx) |->
        TDiv(FMul(FMul(f.abs_x_to_n_plus_1[i], f.exp_abs_x[i]), f.inv_factorial),
             (f.n + 1) * (f.n + 4) * (f.n + 5))]

BatchConvergedAny(bound, min_component) ==
    \E i \in 1..Len(bound) : bound[i] < FMul(rel_tolerance, min_component[i])

\* lines 176 and 185
BatchConverged(bound, min_component) ==
    np_all([i \in 1..Len(bound) |-> bound[i] < FMul(rel_tolerance, min_component[i])])

\* lines 170-176
PhiPart(f) ==
    IF f.phi_converged THEN f
    ELSE LET old == Select(f.phi, f.taylor_mask)
             term == PhiTerm(f)
             sum == [i \in 1..Len(f.xx) |-> CAdd(old[i], term[i])]
             min_phi_component == SeqMap(MinComponent, sum)
             bound == PhiBound(f)
         IN  [f EXCEPT !.phi = Scatter(f.phi, f.taylor_mask, sum),
                       !.phi_terms = f.phi_terms + 1,
                       !.min_phi_component = min_phi_component,
                       !.phi_remaining_terms_bound = bound,
                       !.phi_converged = BatchConverged(bound, min_phi_component)]

\* lines 179-185
PsiPart(f) ==
    IF f.psi_converged THEN f
    ELSE LET old == Select(f.psi, f.taylor_mask)
             term == PsiTerm(f)
             sum == [i \in 1..Len(f.xx) |-> CAdd(old[i], term[i])]
             min_psi_component == SeqMap(MinComponent, sum)
             bound == PsiBound(f)
         IN  [f EXCEPT !.psi = Scatter(f.psi, f.taylor_mask, sum),
                       !.psi_terms = f.psi_terms + 1,
                       !.min_psi_component = min_psi_component,
                       !.psi_remaining_terms_bound = bound,
                       !.psi_converged = BatchConverged(bound, min_psi_component)]

PhiPsiUpdateWithPsi(f) ==
    IF f.psi_converged THEN f
    ELSE [f EXCEPT !.jx_to_n = [i \in 1..Len(f.xx) |->
                                   CScale(CMulJ(f.jx_to_n[i]), f.xx[i])],
                   !.abs_x_to_n_plus_1 = [i \in 1..Len(f.xx) |->
                                   FMul(f.abs_x_to_n_plus_1[i], Abs(f.xx[i]))],
                   !.inv_factorial = TDiv(f.inv_factorial, f.n + 1)]

\* lines 188-190
PhiPsiUpdate(f) ==
    [f EXCEPT !.jx_to_n = [i \in 1..Len(f.xx) |-> CScale(CMulJ(f.jx_to_n[i]), f.xx[i])],
              !.abs_x_to_n_plus_1 = [i \in 1..Len(f.xx) |->
                                        FMul(f.abs_x_to_n_plus_1[i], Abs(f.xx[i]))],
              !.inv_factorial = TDiv(f.inv_factorial, f.n + 1)]

\* lines 163-190: one iteration of the shared convergence loop
PhiPsiIteration(f, cap) ==
    IF f.phi_converged /\ f.psi_converged
    THEN [f EXCEPT !.pc = "after_loop", !.iters = f.iters + 1]
    ELSE NextIndex([PhiPsiUpdate(PsiPart(PhiPart(f))) EXCEPT !.iters = f.iters + 1], cap)

PhiPsiMessageLambda(cap) == Message(<<"Lambda">>, cap)

PhiPsiMessage(cap) == Message(<<"Phi", "Psi">>, cap)

PhiPsiAfterLoopEither(f, cap) ==
    IF ~(f.phi_converged \/ f.psi_converged)
    THEN [f EXCEPT !.pc = "raised", !.err = RuntimeError(PhiPsiMessage(cap))]
    ELSE [f EXCEPT !.pc = "returned"]

\* lines 192-196
PhiPsiAfterLoop(f, cap) ==
    IF ~(f.phi_converged /\ f.psi_converged)
    THEN [f EXCEPT !.pc = "raised", !.err = RuntimeError(PhiPsiMessage(cap))]
    ELSE [f EXCEPT !.pc = "returned"]

(***************************************************************************)
(* Array shapes (numpy broadcasting)                                       *)
(***************************************************************************)
Max(a, b) == IF a > b THEN a ELSE b

Ones(n) == [i \in 1..n |-> 1]

PadLeft(shape, n) == Ones(n - Len(shape)) \o shape

Compatible(a, b) ==
    LET n == Max(Len(a), Len(b))
    IN  \A i \in 1..n :
           \/ PadLeft(a, n)[i] = PadLeft(b, n)[i]
           \/ PadLeft(a, n)[i] = 1
           \/ PadLeft(b, n)[i] = 1

Broadcast(a, b) ==
    LET n == Max(Len(a), Len(b))
    IN  [i \in 1..n |-> IF PadLeft(a, n)[i] = 1 THEN PadLeft(b, n)[i]
                        ELSE PadLeft(a, n)[i]]

\* a[:, :-1] and a[:, 1:] of an array with at least two axes
DropOneOnAxis2(shape) == [shape EXCEPT ![2] = shape[2] - 1]

\* np.sum(a, axis=1)
SumAxis1(shape) == <<shape[1]>> \o SubSeq(shape, 3, Len(shape))

StrictlyIncreasing(xi) == \A i \in 1..(Len(xi) - 1) : xi[i] < xi[i + 1]

(***************************************************************************)
(* complex_pchip and the primitive it delegates to                         *)
(***************************************************************************)
IntOrder(k) == [kind |-> "int", v |-> k]

OrderSequence(ks) == [kind |-> "sequence", v |-> ks]

Raised(e) == [type |-> "error", err |-> e]

NdArray(shape, value) == [type |-> "ndarray", shape |-> shape, value |-> value]

\* scipy.interpolate.pchip_interpolate(xi, yi, x, der, axis=0): the values of
\* one real component, or the list of them when der is a sequence
pchip_interpolate(xi, yi_shape, component, x_len, der) ==
    IF \/ Len(xi) < 2
       \/ ~StrictlyIncreasing(xi)
       \/ Len(yi_shape) = 0
       \/ yi_shape[1] # Len(xi)
    THEN Raised(ValueError)
    ELSE LET interp(k) == NdArray(<<x_len>> \o Tail(yi_shape),
                                  <<"pchip", component, k>>)
         IN  IF der.kind = "int" THEN interp(der.v)
             ELSE [type |-> "list",
                   items |-> [i \in 1..Len(der.v) |-> interp(der.v[i])]]

\* 1j * v
TimesJ(v) ==
    IF v.type = "ndarray" THEN NdArray(v.shape, <<"mul", "1j", v.value>>)
    ELSE Raised(TypeError)

\* a + b for an ndarray or list a and an ndarray b
Plus(a, b) ==
    IF a.type = "ndarray"
    THEN IF Compatible(a.shape, b.shape)
         THEN NdArray(Broadcast(a.shape, b.shape), <<"add", a.value, b.value>>)
         ELSE Raised(ValueError)
    ELSE Raised(TypeError)

\* lines 111-114
complex_pchip(xi, zi_shape, x_len, derivative_order) ==
    LET re == pchip_interpolate(xi, zi_shape, "real", x_len, derivative_order)
        im == pchip_interpolate(xi, zi_shape, "imag", x_len, derivative_order)
    IN  IF re.type = "error" THEN re
        ELSE IF im.type = "error" THEN im
        ELSE IF TimesJ(im).type = "error" THEN TimesJ(im)
        ELSE Plus(re, TimesJ(im))

(***************************************************************************)
(* fourier_integral_inf_correction                                         *)
(***************************************************************************)
\* lines 225-239: shape of the correction and whether it holds inf or nan
\* (a division by a time that is zero)
fourier_integral_inf_correction(times, func_value_end, func_derivative_end) ==
    LET t == times.shape \o Ones(Len(func_value_end))
        v == <<1>> \o func_value_end
        d == <<1>> \o func_derivative_end
    IN  IF Compatible(t, v) /\ Compatible(Broadcast(t, v), d)
        THEN [type |-> "ndarray",
              shape |-> Broadcast(Broadcast(t, v), d),
              nonfinite |-> \E i \in 1..Len(times.data) : times.data[i] = 0]
        ELSE Raised(ValueError)

(***************************************************************************)
(* fourier_integral_fixed_sampling_pchip                                   *)
(***************************************************************************)
Parameters == {"times", "frequencies", "func_values",
               "pos_inf_correction_term", "neg_inf_correction_term"}

\* the keywords of the call in test_fourier_integral_fixed_sampling_pchip
TestKeywords == {"times", "frequencies", "func_values", "inf_correction_term"}

\* python binds the keywords of a call to the parameters, none of which has
\* a default value
BindArguments(keywords) ==
    IF keywords \subseteq Parameters /\ Parameters \subseteq keywords
    THEN NoError ELSE TypeError

Pi == (SCALE * 355) \div 113

None == [type |-> "None"]

\* lines 241-247: the frame at the call
FourierCall(keywords, times, frequencies, func_values_shape, pos, neg) ==
    [pc |-> "bind",
     keywords |-> keywords,
     times |-> times,
     frequencies |-> frequencies,
     func_values |-> func_values_shape,
     pos_inf_correction_term |-> pos,
     neg_inf_correction_term |-> neg,
     omegas |-> <<>>,
     result |-> None,
     func_derivatives |-> None,
     x |-> None,
     kernels |-> <<>>,
     ret |-> None,
     err |-> NoError]

Fail(f, e) == [f EXCEPT !.pc = "raised", !.err = e]

FourierBind(f) ==
    IF BindArguments(f.keywords) = NoError THEN [f EXCEPT !.pc = "alloc"]
    ELSE Fail(f, BindArguments(f.keywords))

\* lines 277-282; len() of a 0-d array raises TypeError
FourierAlloc(f) ==
    IF Len(f.times.shape) = 0 THEN Fail(f, TypeError)
    ELSE [f EXCEPT !.pc = "derivatives",
                   !.omegas = [i \in 1..Len(f.frequencies) |->
                                  FMul(2 * Pi, f.frequencies[i])],
                   !.result = [type |-> "ndarray",
                               shape |-> <<f.times.shape[1]>> \o
                                         (IF Len(f.func_values) = 0 THEN <<>>
                                          ELSE Tail(f.func_values)),
                               nonfinite |-> FALSE]]

\* line 285
FourierDerivatives(f) ==
    LET d == complex_pchip(f.omegas, f.func_values, Len(f.omegas), IntOrder(1))
    IN  IF d.type = "error" THEN Fail(f, d.err)
        ELSE [f EXCEPT !.pc = "pos_correction", !.func_derivatives = d]

\* result += term
AddInPlace(f, term, pc) ==
    IF term.type = "error" THEN Fail(f, term.err)
    ELSE IF ~Compatible(f.result.shape, term.shape)
            \/ Broadcast(f.result.shape, term.shape) # f.result.shape
         THEN Fail(f, ValueError)
    ELSE [f EXCEPT !.pc = pc,
                   !.result.nonfinite = f.result.nonfinite \/ term.nonfinite]

\* lines 288-304: one of the two asymptotic correction terms
FourierCorrection(f, flag, pc) ==
    IF flag
    THEN AddInPlace(f,
           fourier_integral_inf_correction(f.times, Tail(f.func_values),
                                           Tail(f.func_derivatives.shape)),
           pc)
    ELSE [f EXCEPT !.pc = pc]

\* lines 314-330: x = delta_omegas*times, of shape (M, N-1, 1, ..., 1)
FourierReshape(f) ==
    LET M == f.times.shape[1]
        K == Len(f.omegas) - 1
        delta_omegas == [k \in 1..K |-> f.omegas[k + 1] - f.omegas[k]]
    IN  [f EXCEPT !.pc = "kernel",
                  !.x = [shape |-> <<M, K>> \o Ones(Len(f.func_values) - 1),
                         data |-> [i \in 1..(M * K) |->
                                     FMul(delta_omegas[((i - 1) % K) + 1],
                                          f.times.data[((i - 1) \div K) + 1])]]]

\* lines 333-334: the argument of the next call of _phi_and_psi
KernelArgument(f) ==
    IF Len(f.kernels) = 0 THEN f.x.data
    ELSE [i \in 1..Len(f.x.data) |-> -f.x.data[i]]

\* lines 333-334: a call of _phi_and_psi has ended
FourierKernelDone(f, k) ==
    IF k.pc = "raised" THEN Fail(f, k.err)
    ELSE [f EXCEPT !.pc = IF Len(f.kernels) = 1 THEN "sum" ELSE "kernel",
                   !.kernels = Append(f.kernels, [phi |-> k.phi, psi |-> k.psi])]

\* lines 336-343
FourierSum(f) ==
    LET w == f.x.shape
        fv == DropOneOnAxis2(<<1>> \o f.func_values)
        fd == DropOneOnAxis2(<<1>> \o f.func_derivatives.shape)
    IN  IF Compatible(w, fv) /\ Compatible(Broadcast(w, fv), fd)
        THEN LET g == AddInPlace(f,
                        [type |-> "ndarray",
                         shape |-> SumAxis1(Broadcast(Broadcast(w, fv), fd)),
                         nonfinite |-> FALSE],
                        "returned")
             IN  IF g.pc = "returned" THEN [g EXCEPT !.ret = g.result] ELSE g
        ELSE Fail(f, ValueError)

(***************************************************************************)
(* Inputs                                                                  *)
(***************************************************************************)
\* kernel arguments: 0, 1/8, 1/2, -1/2, 15/16 (Taylor) and 1, -2 (closed form)
KernelArgs == {0, SCALE \div 8, SCALE \div 2, -(SCALE \div 2),
               (15 * SCALE) \div 16, SCALE, -(2 * SCALE)}

RECURSIVE SeqsUpTo(_, _)
SeqsUpTo(S, n) ==
    IF n = 0 THEN {<<>>}
    ELSE LET shorter == SeqsUpTo(S, n - 1)
         IN  shorter \cup {Append(s, e) : s \in {t \in shorter : Len(t) = n - 1}, e \in S}

Batches == SeqsUpTo(KernelArgs, MaxLen)

\* frequency grids [Hz]: two increasing ones, a decreasing one, a repeated node
FrequencyGrids == {<<SCALE \div 8, SCALE \div 4>>,
                   <<SCALE \div 8, SCALE \div 4, SCALE \div 2>>,
                   <<SCALE \div 4, SCALE \div 8>>,
                   <<SCALE \div 8, SCALE \div 8>>}

\* times [s]: 0, 1/2, 2
TimeValues == {0, SCALE \div 2, 2 * SCALE}

\* a single float, or a 1-D array of floats
TimesArguments ==
    {[shape |-> <<>>, data |-> <<t>>] : t \in TimeValues}
    \cup {[shape |-> <<Len(ts)>>, data |-> ts] :
             ts \in SeqsUpTo(TimeValues, MaxTimes) \ {<<>>}}

\* shapes (N, X1, X2, ...) of func_values
FuncValuesShapes == {<<n>> \o trailing : n \in {2, 3}, trailing \in {<<>>, <<2, 2>>}}

DerivativeOrders == {IntOrder(0), IntOrder(1), OrderSequence(<<0, 1>>),
                     OrderSequence(<<1>>)}

(***************************************************************************)
(* Specification                                                           *)
(***************************************************************************)
InitLambda ==
    /\ entry = "_lambda"
    /\ \E x \in Batches : lam = LambdaCall(x)
    /\ pp = Idle /\ first = Idle /\ cp = Idle /\ fi = Idle

InitPhiPsi ==
    /\ entry = "_phi_and_psi"
    /\ \E x \in Batches : pp = PhiPsiCall(x)
    /\ lam = Idle /\ first = Idle /\ cp = Idle /\ fi = Idle

InitComplexPchip ==
    /\ entry = "complex_pchip"
    /\ \E xi \in FrequencyGrids, zi \in FuncValuesShapes, x_len \in 1..MaxTimes,
          der \in DerivativeOrders :
          cp = [pc |-> "call", xi |-> xi, zi |-> zi, x_len |-> x_len,
                derivative_order |-> der, ret |-> None, err |-> NoError]
    /\ lam = Idle /\ pp = Idle /\ first = Idle /\ fi = Idle

InitFourier ==
    /\ entry = "fourier_integral_fixed_sampling_pchip"
    /\ \E keywords \in {Parameters, TestKeywords}, times \in TimesArguments,
          frequencies \in FrequencyGrids, shape \in FuncValuesShapes,
          pos \in BOOLEAN, neg \in BOOLEAN :
          \* the test passes 1-D positive times, an increasing grid and one flag
          /\ keywords = TestKeywords =>
                /\ Len(times.shape) = 1
                /\ \A i \in 1..Len(times.data) : times.data[i] # 0
                /\ StrictlyIncreasing(frequencies)
                /\ shape[1] = Len(frequencies)
                /\ pos /\ ~neg
          /\ fi = FourierCall(keywords, times, frequencies, shape, pos, neg)
    /\ lam = Idle /\ pp = Idle /\ first = Idle /\ cp = Idle

Init ==
    /\ MAX_TAYLOR_ITERATIONS \in Caps
    /\ \/ InitLambda
       \/ InitPhiPsi
       \/ InitComplexPchip
       \/ InitFourier

LambdaIterate ==
    /\ lam.pc = "loop"
    /\ \E tv \in TruthValues(LambdaConverged(LambdaBound(lam),
                                            SeqMap(MinComponent, LambdaAdd(lam)))) :
          lam' = LambdaIteration(lam, tv, MAX_TAYLOR_ITERATIONS)
    /\ UNCHANGED <<MAX_TAYLOR_ITERATIONS, entry, pp, first, cp, fi>>

LambdaFinish ==
    /\ lam.pc = "after_loop"
    /\ lam' = LambdaAfterLoop(lam, MAX_TAYLOR_ITERATIONS)
    /\ UNCHANGED <<MAX_TAYLOR_ITERATIONS, entry, pp, first, cp, fi>>

PhiPsiIterate ==
    /\ pp.pc = "loop"
    /\ pp' = PhiPsiIteration(pp, MAX_TAYLOR_ITERATIONS)
    /\ UNCHANGED <<MAX_TAYLOR_ITERATIONS, entry, lam, first, cp, fi>>

PhiPsiFinish ==
    /\ pp.pc = "after_loop"
    /\ pp' = PhiPsiAfterLoop(pp, MAX_TAYLOR_ITERATIONS)
    /\ UNCHANGED <<MAX_TAYLOR_ITERATIONS, entry, lam, first, cp, fi>>

\* a second call of _phi_and_psi, on one element of the batch of the first
PhiPsiCallAlone ==
    /\ entry = "_phi_and_psi"
    /\ Done(pp)
    /\ first = Idle
    /\ \E i \in 1..Len(pp.x) :
          /\ first' = [pc |-> "kept", call |-> pp, index |-> i]
          /\ pp' = PhiPsiCall(<<pp.x[i]>>)
    /\ UNCHANGED <<MAX_TAYLOR_ITERATIONS, entry, lam, cp, fi>>

ComplexPchipRun ==
    /\ cp.pc = "call"
    /\ LET r == complex_pchip(cp.xi, cp.zi, cp.x_len, cp.derivative_order)
       IN  cp' = IF r.type = "error"
                 THEN [cp EXCEPT !.pc = "raised", !.err = r.err]
                 ELSE [cp EXCEPT !.pc = "returned", !.ret = r]
    /\ UNCHANGED <<MAX_TAYLOR_ITERATIONS, entry, lam, pp, first, fi>>

FiStep(f) == /\ fi' = f
             /\ UNCHANGED <<MAX_TAYLOR_ITERATIONS, entry, lam, pp, first, cp>>

FiBind == fi.pc = "bind" /\ FiStep(FourierBind(fi))

FiAlloc == fi.pc = "alloc" /\ FiStep(FourierAlloc(fi))

FiDerivatives == fi.pc = "derivatives" /\ FiStep(FourierDerivatives(fi))

FiPosCorrection ==
    /\ fi.pc = "pos_correction"
    /\ FiStep(FourierCorrection(fi, fi.pos_inf_correction_term, "neg_correction"))

FiNegCorrection ==
    /\ fi.pc = "neg_correction"
    /\ FiStep(FourierCorrection(fi, fi.neg_inf_correction_term, "reshape"))

FiReshape == fi.pc = "reshape" /\ FiStep(FourierReshape(fi))

FiCallKernel ==
    /\ fi.pc = "kernel"
    /\ fi' = [fi EXCEPT !.pc = "in_kernel"]
    /\ pp' = PhiPsiCall(KernelArgument(fi))
    /\ UNCHANGED <<MAX_TAYLOR_ITERATIONS, entry, lam, first, cp>>

FiKernelDone ==
    /\ fi.pc = "in_kernel"
    /\ Done(pp)
    /\ fi' = FourierKernelDone(fi, pp)
    /\ pp' = Idle
    /\ UNCHANGED <<MAX_TAYLOR_ITERATIONS, entry, lam, first, cp>>

FiSum == fi.pc = "sum" /\ FiStep(FourierSum(fi))

Next ==
    \/ LambdaIterate
    \/ LambdaFinish
    \/ PhiPsiIterate
    \/ PhiPsiFinish
    \/ PhiPsiCallAlone
    \/ ComplexPchipRun
    \/ FiBind
    \/ FiAlloc
    \/ FiDerivatives
    \/ FiPosCorrection
    \/ FiNegCorrection
    \/ FiReshape
    \/ FiCallKernel
    \/ FiKernelDone
    \/ FiSum

Spec == Init /\ [][Next]_vars

(***************************************************************************)
(* Properties                                                              *)
(***************************************************************************)
TaylorPart(values, f) == Select(values, f.taylor_mask)

\* the convergence test of every element of the Taylor partition holds for
\* the bound and the sum the frame holds
TestHolds(bound, min_component, sum) ==
    /\ Len(bound) = Len(sum)
    /\ Len(min_component) = Len(sum)
    /\ \A i \in 1..Len(sum) :
          /\ min_component[i] = MinComponent(sum[i])
          /\ bound[i] < FMul(rel_tolerance, min_component[i])

\* what a step leaves behind when a kernel or the integrator ends
C1_Step ==
    /\ lam'.pc = "returned" =>
          TestHolds(lam'.remaining_term_bound, lam'.min_component,
                    TaylorPart(lam'.result, lam'))
    /\ pp'.pc = "returned" =>
          /\ TestHolds(pp'.phi_remaining_terms_bound, pp'.min_phi_component,
                       TaylorPart(pp'.phi, pp'))
          /\ TestHolds(pp'.psi_remaining_terms_bound, pp'.min_psi_component,
                       TaylorPart(pp'.psi, pp'))
    /\ (fi.pc = "in_kernel" /\ pp.pc = "raised") =>
          (fi'.pc = "raised" /\ fi'.err = pp.err /\ fi'.ret = None)
    /\ fi'.pc = "raised" => fi'.ret = None
    /\ fi'.pc = "returned" => (fi.pc = "sum" /\ Len(fi.kernels) = 2)
    /\ (fi.pc = "in_kernel" /\ Len(fi'.kernels) > Len(fi.kernels)) =>
          pp.pc = "returned"

\* C1: a kernel that returns has met the convergence test of every element
\* with |x| < 1 at the last term it added (_phi_and_psi: for Phi and for
\* Psi); a kernel that raises inside fourier_integral_fixed_sampling_pchip
\* ends that call with the error and without a result, and the call returns
\* only after two kernel calls that returned.
C1_NoUnconvergedResult == [][C1_Step]_vars

\* a call of the integrator with non-zero times that a cap of 0 made fail
C1_Witness ==
    /\ fi.pc = "raised"
    /\ MAX_TAYLOR_ITERATIONS = 0
    /\ fi.err = RuntimeError(PhiPsiMessage(0))
    /\ \A i \in 1..Len(fi.times.data) : fi.times.data[i] # 0
    /\ fi.ret = None

\* C2: _lambda given elements none of which has |x| < 1 returns the closed
\* form without an error.
C2_EmptyTaylorPartitionReturns ==
    (Done(lam) /\ Len(lam.x) >= 1 /\ Len(lam.xx) = 0) => lam.pc = "returned"

\* C3: _lambda given two or more elements with |x| < 1 ends either by
\* returning with the test met for each of them, or with the
\* non-convergence error at the cap.
C3_BatchedLambda ==
    (Done(lam) /\ Len(lam.xx) >= 2) =>
        \/ /\ lam.pc = "returned"
           /\ TestHolds(lam.remaining_term_bound, lam.min_component,
                        TaylorPart(lam.result, lam))
        \/ /\ lam.pc = "raised"
           /\ lam.err = RuntimeError(LambdaMessage(MAX_TAYLOR_ITERATIONS))
           /\ lam.n = MAX_TAYLOR_ITERATIONS

\* C4: with the cap at 1000 no series receives more than 1000 terms.
C4_AtMostCapTerms ==
    MAX_TAYLOR_ITERATIONS = DefaultCap =>
        /\ lam.pc # "idle" => lam.iters <= MAX_TAYLOR_ITERATIONS
        /\ pp.pc # "idle" => /\ pp.phi_terms <= MAX_TAYLOR_ITERATIONS
                             /\ pp.psi_terms <= MAX_TAYLOR_ITERATIONS

ConvergenceFailure(f) == f.pc = "raised" /\ f.err.type = "RuntimeError"

Bound(f) == f.pc # "idle" /\ BindArguments(f.keywords) = NoError

InvalidInput(f) ==
    \/ ~StrictlyIncreasing(f.frequencies)
    \/ f.func_values[1] # Len(f.frequencies)
    \/ \E i \in 1..Len(f.times.data) : f.times.data[i] = 0

\* C6: for frequencies that do not increase, a first axis of func_values of
\* another length, or a time of 0, the call computes no derivative, returns
\* nothing and fails with an error about its input.
C6_InvalidInputFailsAtEntry ==
    (Bound(fi) /\ InvalidInput(fi)) =>
        /\ fi.func_derivatives = None
        /\ fi.pc # "returned"
        /\ fi.pc = "raised" => fi.err.type \in {"ValueError", "TypeError"}

Kept == first.pc = "kept" /\ Done(pp)

\* C7 as stated: with the cap at 1000, an element evaluated alone and inside
\* a batch ends the same way, with the same number of terms and the same Phi
\* and Psi.
C7_SameAloneAndInBatch ==
    (Kept /\ MAX_TAYLOR_ITERATIONS = DefaultCap) =>
        LET b == first.call
            i == first.index
        IN  /\ b.pc = pp.pc
            /\ b.phi_terms = pp.phi_terms
            /\ b.psi_terms = pp.psi_terms
            /\ b.phi[i] = pp.phi[1]
            /\ b.psi[i] = pp.psi[1]

\* C7 amended: the branch of an element depends on its own x only, and an
\* element with |x| >= 1 has the same Phi and Psi alone and in any batch.
\* The elements with |x| < 1 of a batch all receive the same number of Phi
\* terms and of Psi terms, for each element at least as many as it receives
\* alone; a batch that returns contains only elements that return alone, and
\* an element has the same Phi (Psi) in the batch as alone when the two
\* numbers of Phi (Psi) terms are equal.
C7_BranchAloneTermsPerBatch ==
    Kept =>
        LET b == first.call
            i == first.index
        IN  /\ b.taylor_mask[i] = pp.taylor_mask[1]
            /\ ~b.taylor_mask[i] => (b.phi[i] = pp.phi[1] /\ b.psi[i] = pp.psi[1])
            /\ b.pc = "returned" => pp.pc = "returned"
            /\ (b.pc = "returned" /\ b.taylor_mask[i]) =>
                  /\ b.phi_terms >= pp.phi_terms
                  /\ b.psi_terms >= pp.psi_terms
                  /\ b.phi_terms = pp.phi_terms => b.phi[i] = pp.phi[1]
                  /\ b.psi_terms = pp.psi_terms => b.psi[i] = pp.psi[1]

\* an element that received more Phi terms in its batch than alone
C7_Witness ==
    /\ Kept
    /\ first.call.pc = "returned"
    /\ pp.pc = "returned"
    /\ first.call.taylor_mask[first.index]
    /\ first.call.phi_terms > pp.phi_terms

ValidInput(f) ==
    /\ StrictlyIncreasing(f.frequencies)
    /\ f.func_values[1] = Len(f.frequencies)

\* M of a single float or of a 1-D array of M floats
NumberOfTimes(times) == Len(times.data)

\* C8: a call with a float or a 1-D array of M times and func_values of
\* shape (N, X1, X2, ...) that does not fail to converge returns an array of
\* shape (M, X1, X2, ...).
C8_ResultShape ==
    (Bound(fi) /\ ValidInput(fi) /\ Done(fi)) =>
        \/ /\ fi.pc = "returned"
           /\ fi.ret.shape = <<NumberOfTimes(fi.times)>> \o Tail(fi.func_values)
        \/ /\ fi.pc = "raised"
           /\ fi.err.type = "RuntimeError"

\* C9: complex_pchip given a sequence of orders returns a list with one
\* complex array per order, and given one integer order one complex array.
C9_OneArrayPerOrder ==
    (Done(cp) /\ StrictlyIncreasing(cp.xi) /\ cp.zi[1] = Len(cp.xi)) =>
        /\ cp.pc = "returned"
        /\ cp.derivative_order.kind = "int" => cp.ret.type = "ndarray"
        /\ cp.derivative_order.kind = "sequence" =>
              /\ cp.ret.type = "list"
              /\ Len(cp.ret.items) = Len(cp.derivative_order.v)

\* C10: the call the test makes (keywords times, frequencies, func_values
\* and inf_correction_term) returns one value per time.
C10_TestCallReturns ==
    (fi.pc # "idle" /\ fi.keywords = TestKeywords /\ Done(fi)) =>
        /\ fi.pc = "returned"
        /\ fi.ret.shape = <<NumberOfTimes(fi.times)>> \o Tail(fi.func_values)

\* (j x)^n and 1/n!, by n multiplications and n divisions
RECURSIVE JxToN(_, _)
JxToN(x, n) == IF n = 0 THEN One ELSE CScale(CMulJ(JxToN(x, n - 1)), x)

RECURSIVE InvFactorial(_)
InvFactorial(n) == IF n = 0 THEN SCALE ELSE TDiv(InvFactorial(n - 1), n)

\* the n-th terms of the series of Phi and of Psi
NthPhiTerm(x, n) ==
    CScale(CScale(JxToN(x, n), TDiv(SCALE * (n + 6), (n + 3) * (n + 4))),
           InvFactorial(n))

NthPsiTerm(x, n) ==
    CScale(CScale(JxToN(x, n), -TDiv(SCALE, (n + 3) * (n + 4))), InvFactorial(n))

\* the sums of g are those of f with one term added to each element
Added(new, old, term) ==
    /\ Len(new) = Len(old)
    /\ \A i \in 1..Len(old) : new[i] = CAdd(old[i], term[i])

\* the n-th term, computed from n alone for the first DirectTerms terms and
\* from the shared power and factorial of the frame for every n
TermIsNth(term, Nth(_, _), f) ==
    /\ Len(term) = Len(f.xx)
    /\ f.n <= DirectTerms => \A i \in 1..Len(f.xx) : term[i] = Nth(f.xx[i], f.n)

\* one step of a call of _phi_and_psi that is in or right after its loop
C11_Step ==
    /\ pp.pc = "after_loop" =>
          /\ pp'.phi_converged = pp.phi_converged
          /\ pp'.psi_converged = pp.psi_converged
          /\ pp'.phi = pp.phi /\ pp'.psi = pp.psi
    /\ pp.pc = "loop" =>
          LET body == ~(pp.phi_converged /\ pp.psi_converged)
          IN  /\ pp.phi_converged =>
                    /\ pp'.phi_converged
                    /\ pp'.phi = pp.phi
                    /\ pp'.phi_terms = pp.phi_terms
              /\ pp.psi_converged =>
                    /\ pp'.psi_converged
                    /\ pp'.psi = pp.psi
                    /\ pp'.psi_terms = pp.psi_terms
              /\ ~pp.phi_converged =>
                    /\ pp'.phi_terms = pp.phi_terms + 1
                    /\ TermIsNth(PhiTerm(pp), NthPhiTerm, pp)
                    /\ Added(TaylorPart(pp'.phi, pp), TaylorPart(pp.phi, pp),
                             PhiTerm(pp))
              /\ ~pp.psi_converged =>
                    /\ pp'.psi_terms = pp.psi_terms + 1
                    /\ TermIsNth(PsiTerm(pp), NthPsiTerm, pp)
                    /\ Added(TaylorPart(pp'.psi, pp), TaylorPart(pp.psi, pp),
                             PsiTerm(pp))
              /\ body =>
                    /\ pp'.inv_factorial = TDiv(pp.inv_factorial, pp.n + 1)
                    /\ \A i \in 1..Len(pp.xx) :
                          /\ pp'.jx_to_n[i] = CScale(CMulJ(pp.jx_to_n[i]), pp.xx[i])
                          /\ pp'.abs_x_to_n_plus_1[i] =
                                FMul(pp.abs_x_to_n_plus_1[i], Abs(pp.xx[i]))
                    /\ pp'.n = IF pp.n = MAX_TAYLOR_ITERATIONS THEN pp.n ELSE pp.n + 1
              /\ pp.n = 0 => /\ pp.inv_factorial = SCALE
                             /\ \A i \in 1..Len(pp.xx) : pp.jx_to_n[i] = One
              /\ (pp'.pc # "loop" /\ pp.n < MAX_TAYLOR_ITERATIONS) =>
                    (pp.phi_converged /\ pp.psi_converged)
              /\ ~body => pp'.pc = "after_loop"

\* C11: in the loop of _phi_and_psi a converged flag that is true stays true
\* and its kernel receives no further term, while a kernel whose flag is
\* false receives at iteration n its n-th Taylor term; the shared power and
\* factorial advance in every iteration that does not break, and the loop is
\* left before the cap only with both flags true.
C11_IndependentFlags == [][C11_Step]_vars

\* Psi converged first, was skipped, and Phi went on receiving terms
C11_Witness ==
    /\ pp.pc = "loop"
    /\ Len(pp.xx) >= 1
    /\ pp.psi_converged
    /\ pp.phi_converged
    /\ pp.phi_terms > pp.psi_terms

====
